---- MODULE Spec2Model ----
(***************************************************************************)
(* TruthGuardAI (src/app.py): the /verify pipeline (input validation,      *)
(* content extraction, lexical analysis, verdict classification,           *)
(* corroboration adjustment, report persistence) and the /stats handler.   *)
(*                                                                         *)
(* Sentiment polarity is a fixed-point integer in units of 1/100000, so    *)
(* 0.5 is 50000.  The NLP                                                  *)
(* libraries, the HTTP fetch, the search services and the database commit  *)
(* are external: their results are inputs chosen by the environment.       *)
(***************************************************************************)
EXTENDS Integers, Sequences, FiniteSets, TLC

VARIABLES
    reports,          \* the FakeNewsReport table, rows in insertion order
    pc,               \* position of the /verify handler
    data,             \* verify(): request body
    raw,              \* verify(): trimmed input
    search_query,     \* verify(): query derived from the input
    analysis_text,    \* verify(): text handed to analyze_text
    analysis,         \* verify(): the analysis dict (label is mutated in place)
    search_results,   \* verify(): number of search results found
    resp,             \* the HTTP response of the current /verify request
    log,              \* what the /verify handler logged for the current request
    st,               \* the /stats handler: position and the counts read so far
    call,             \* a direct call of a pure function: its arguments
    ret               \* ... and its return value

vars == <<reports, pc, data, raw, search_query, analysis_text, analysis,
          search_results, resp, log, st, call, ret>>

-----------------------------------------------------------------------------
(* Bounds of the model *)

MaxReports == 2
MaxTokens == 3

-----------------------------------------------------------------------------
(* Program constants *)

MinTextLen == 10
CapsMinLen == 3
FakeIndicators == 3
FakeNegPolarity == -25000
FakePosPolarity == 50000
SuspiciousIndicators == 1
SuspiciousAbsPolarity == 15000
MaxParagraphs == 15
MaxStoredText == 2000
SearchNum == 6
FewResults == 3

-----------------------------------------------------------------------------
(* Python str operations *)

LowerChars == <<"a","b","c","d","e","f","g","h","i","j","k","l","m",
                "n","o","p","q","r","s","t","u","v","w","x","y","z">>
UpperChars == <<"A","B","C","D","E","F","G","H","I","J","K","L","M",
                "N","O","P","Q","R","S","T","U","V","W","X","Y","Z">>

\* s[i-1] of Python: the i-th character, as a string of length one
At(s, i) == SubSeq(s, i, i)

IsLowerCh(c) == c \in {LowerChars[i] : i \in 1..Len(LowerChars)}
IsUpperCh(c) == c \in {UpperChars[i] : i \in 1..Len(UpperChars)}
IsAlphaCh(c) == IsLowerCh(c) \/ IsUpperCh(c)
IsSpaceCh(c) == c \in {" ", "\n", "\t"}

ToLowerCh(c) ==
    IF IsUpperCh(c)
    THEN LowerChars[CHOOSE i \in 1..Len(UpperChars) : UpperChars[i] = c]
    ELSE c

\* str.lower()
RECURSIVE LowerRange(_, _, _)
LowerRange(s, lo, hi) ==
    IF lo > hi THEN ""
    ELSE IF lo = hi THEN ToLowerCh(At(s, lo))
    ELSE LET mid == (lo + hi) \div 2
         IN  LowerRange(s, lo, mid) \o LowerRange(s, mid + 1, hi)
Lower(s) == LowerRange(s, 1, Len(s))

\* str.isalpha(): non-empty and every character alphabetic
IsAlpha(s) == Len(s) > 0 /\ \A i \in 1..Len(s) : IsAlphaCh(At(s, i))

\* str.isupper(): no lowercase character and at least one cased character
IsUpper(s) ==
    /\ \A i \in 1..Len(s) : ~IsLowerCh(At(s, i))
    /\ \E i \in 1..Len(s) : IsUpperCh(At(s, i))

\* str.strip(): from the first to the last non-whitespace character
Strip(s) ==
    IF \A i \in 1..Len(s) : IsSpaceCh(At(s, i)) THEN ""
    ELSE LET first == CHOOSE i \in 1..Len(s) :
                          /\ ~IsSpaceCh(At(s, i))
                          /\ \A j \in 1..(i - 1) : IsSpaceCh(At(s, j))
             back  == CHOOSE k \in 1..Len(s) :
                          /\ ~IsSpaceCh(At(s, Len(s) + 1 - k))
                          /\ \A j \in 1..(k - 1) : IsSpaceCh(At(s, Len(s) + 1 - j))
         IN  SubSeq(s, first, Len(s) + 1 - back)

\* s[:n]
Prefix(s, n) == SubSeq(s, 1, IF Len(s) < n THEN Len(s) ELSE n)

\* str.startswith(p)
StartsWith(s, p) == Len(s) >= Len(p) /\ SubSeq(s, 1, Len(p)) = p

\* str.count(c) for a one-character c
Count(s, c) == Cardinality({i \in 1..Len(s) : At(s, i) = c})

\* w in t (substring test)
Contains(t, w) ==
    \E k \in 0..(Len(t) - Len(w)) : SubSeq(t, k + 1, k + Len(w)) = w

\* str.split(): the words are the maximal runs of non-whitespace; a word is
\* identified by the index of its first character
WordStarts(s) ==
    {i \in 1..Len(s) : ~IsSpaceCh(At(s, i)) /\ (i = 1 \/ IsSpaceCh(At(s, i - 1)))}

WordEnd(s, i) ==
    CHOOSE j \in i..Len(s) :
        /\ j = Len(s) \/ IsSpaceCh(At(s, j + 1))
        /\ \A k \in i..j : ~IsSpaceCh(At(s, k))

Word(s, i) == SubSeq(s, i, WordEnd(s, i))

\* " ".join(parts)
RECURSIVE JoinSpace(_)
JoinSpace(parts) ==
    IF Len(parts) = 0 THEN ""
    ELSE IF Len(parts) = 1 THEN parts[1]
    ELSE parts[1] \o " " \o JoinSpace(Tail(parts))

\* Python truthiness of a str / the value of "a or b" on strings
Truthy(s) == Len(s) > 0
Or(a, b) == IF Truthy(a) THEN a ELSE b

-----------------------------------------------------------------------------
(* Sample strings *)

HttpPrefix == "http://"
HttpsPrefix == "https://"
TextHi == "hi"
TextPlain == "bank rates rose today"
TextLoud == "SHOCKING NEWS!! bank?"
TextNine == "  abcdefghi \n"
TextTen == "abcdefghij"
TextBlank == "  "
UrlSample == "http://t.co/a"
TokBank == "bank"
TokFactory == "factory"
TitleRaw == " hi "
MetaText == "daily bank report"
OgText == "og bank report"

\* c repeated n times
RECURSIVE Repeat(_, _)
Repeat(c, n) ==
    IF n = 0 THEN ""
    ELSE IF n % 2 = 0 THEN LET h == Repeat(c, n \div 2) IN h \o h
    ELSE c \o Repeat(c, n - 1)

\* a text longer than the stored-text limit: "bank rates a......"
LongLen == MaxStoredText + 3
TextLong == "bank rates a" \o Repeat(".", LongLen - 12)

-----------------------------------------------------------------------------
(* analyze_text *)

sensational_words ==
    << "click", "shocking", "unbelievable", "hate", "secret", "miracle", "cure",
       "conspiracy", "pharma", "believe", "weird", "trick", "scientists", "baffled",
       "hidden", "truth", "wake", "sheeple", "fake", "hoax", "breaking",
       "news", "urgent", "alert", "warning", "scandal", "exposed", "leaked",
       "bombshell", "revolutionary", "guaranteed", "limited", "act", "free", "money",
       "cancer", "theory", "deep", "state", "alternative", "facts", "zombie",
       "apocalypse" >>

\* any(w in t for w in sensational_words)
IsSensational(t) ==
    \E k \in 1..Len(sensational_words) : Contains(t, sensational_words[k])

\* Lines 97-103 and 124.  tok is the outcome of the NLTK tokenisation and
\* stopword removal: [ok |-> TRUE, tokens |-> ...] or, when NLTK raises,
\* [ok |-> FALSE]; then the tokens are the alphabetic words of text.split(),
\* lowercased, one per word start.
indicator_count(text, tok) ==
    IF tok.ok
    THEN Cardinality({k \in 1..Len(tok.tokens) : IsSensational(tok.tokens[k])})
    ELSE Cardinality({i \in WordStarts(text) :
                         LET t == Word(text, i)
                         IN  IsAlpha(t) /\ IsSensational(Lower(t))})

punct_indicators(text) == (Count(text, "!") + Count(text, "?")) \div 2

caps_indicators(text) ==
    IF Cardinality({i \in WordStarts(text) :
                       LET t == Word(text, i)
                       IN  IsUpper(t) /\ Len(t) > CapsMinLen}) > 1
    THEN 1 ELSE 0

total_indicators(text, tok) ==
    indicator_count(text, tok) + punct_indicators(text) + caps_indicators(text)

Abs(x) == IF x < 0 THEN -x ELSE x

\* round(polarity, 4): to the nearest multiple of 10 units, ties to even
Round4(p) ==
    LET q == p \div 10
        r == p % 10
    IN  IF r < 5 THEN q * 10
        ELSE IF r > 5 THEN (q + 1) * 10
        ELSE IF q % 2 = 0 THEN q * 10 ELSE (q + 1) * 10

\* Variants of label_of with a slip in them: the suspicious test made first,
\* an inclusive upper polarity threshold, the fake indicator threshold
\* repeated in the suspicious test
label_of_suspicious_first(total, polarity) ==
    IF total >= SuspiciousIndicators \/ Abs(polarity) > SuspiciousAbsPolarity
    THEN "suspicious"
    ELSE IF total >= FakeIndicators \/ polarity < FakeNegPolarity
                                    \/ polarity > FakePosPolarity
    THEN "fake"
    ELSE "real"

label_of_inclusive(total, polarity) ==
    IF total >= FakeIndicators \/ polarity < FakeNegPolarity \/ polarity >= FakePosPolarity
    THEN "fake"
    ELSE IF total >= SuspiciousIndicators \/ Abs(polarity) > SuspiciousAbsPolarity
    THEN "suspicious"
    ELSE "real"

label_of_same_threshold(total, polarity) ==
    IF total >= FakeIndicators \/ polarity < FakeNegPolarity \/ polarity > FakePosPolarity
    THEN "fake"
    ELSE IF total >= FakeIndicators \/ Abs(polarity) > SuspiciousAbsPolarity
    THEN "suspicious"
    ELSE "real"

\* The if/elif/else on total_indicators and polarity
label_of(total, polarity) ==
    IF total >= FakeIndicators \/ polarity < FakeNegPolarity \/ polarity > FakePosPolarity
    THEN "fake"
    ELSE IF total >= SuspiciousIndicators \/ Abs(polarity) > SuspiciousAbsPolarity
    THEN "suspicious"
    ELSE "real"

\* pol is the outcome of TextBlob(text).sentiment.polarity:
\* [ok |-> TRUE, value |-> ...] or [ok |-> FALSE] when it raises.
\* The tokens and preview entries of the result are not modelled.
analyze_text(text, tok, pol) ==
    IF ~Truthy(text) \/ Len(Strip(text)) < MinTextLen
    THEN [sentiment |-> 0, label |-> "uncertain"]
    ELSE LET polarity == IF pol.ok THEN pol.value ELSE 0
             total    == total_indicators(text, tok)
         IN  [sentiment  |-> Round4(polarity),
              label      |-> label_of(total, polarity),
              indicators |-> total]

-----------------------------------------------------------------------------
(* extract_text_from_url and prepare_query_from_input *)

Absent == [kind |-> "absent"]
Str(s) == [kind |-> "str", value |-> s]

\* fetch is the outcome of requests.get + raise_for_status + the parse:
\* [ok |-> FALSE], or [ok |-> TRUE, page |-> p] where
\*   p.title      is Absent (no <title>), [kind |-> "nostring"] (a <title>
\*                whose .string is None) or Str(s),
\*   p.paragraphs is the sequence of p.get_text(" ", strip=True),
\*   p.meta_name, p.meta_og are Absent, [kind |-> "nocontent"] (a tag without
\*                a content attribute) or Str(content).
extract_text_from_url(url, fetch) ==
    IF ~fetch.ok THEN [title |-> url, content |-> url]
    ELSE LET page == fetch.page IN
         IF page.title.kind = "nostring"
         THEN [title |-> url, content |-> url]
         ELSE LET title      == IF page.title.kind = "str"
                                THEN Strip(page.title.value) ELSE url
                  paragraphs == Prefix(page.paragraphs, MaxParagraphs)
                  joined     == Or(JoinSpace(paragraphs), title)
                  meta       == IF page.meta_name.kind # "absent"
                                THEN page.meta_name ELSE page.meta_og
                  content    == IF Truthy(joined) THEN joined
                                ELSE IF meta.kind = "absent" THEN title
                                ELSE IF meta.kind = "str" THEN meta.value
                                ELSE ""
              IN  [title |-> title, content |-> content]

IsUrl(s) == StartsWith(s, HttpPrefix) \/ StartsWith(s, HttpsPrefix)

\* urlparse(url).netloc for a url that starts with http:// or https://
Netloc(url) ==
    LET start == (IF StartsWith(url, HttpsPrefix)
                  THEN Len(HttpsPrefix) ELSE Len(HttpPrefix)) + 1
        stops == {i \in start..Len(url) : At(url, i) \in {"/", "?", "#"}}
        end   == IF stops = {} THEN Len(url)
                 ELSE (CHOOSE i \in stops : \A j \in stops : i <= j) - 1
    IN  SubSeq(url, start, end)

prepare_query_from_input(raw_input, fetch) ==
    LET r == Strip(raw_input) IN
    IF ~Truthy(r) THEN [query |-> "", text |-> ""]
    ELSE IF IsUrl(r)
    THEN LET e      == extract_text_from_url(r, fetch)
             domain == Netloc(r)
         IN  [query |-> Or(Or(e.title, domain), r),
              text  |-> Or(Or(e.content, e.title), r)]
    ELSE [query |-> r, text |-> r]

-----------------------------------------------------------------------------
(* google_search: the result list is modelled by its length *)

Min2(a, b) == IF a < b THEN a ELSE b

\* serp: [ok |-> FALSE] (no key, or the call raises) or
\*       [ok |-> TRUE, organic |-> number of organic results]
google_search_serpapi(serp, num) ==
    IF serp.ok THEN Min2(serp.organic, num) ELSE 0

\* scrape: [ok |-> FALSE] or [ok |-> TRUE, containers |-> matched blocks,
\*         unusable |-> those of the first num with neither title nor link]
google_search_scrape(scrape, num) ==
    IF scrape.ok THEN Min2(scrape.containers, num) - scrape.unusable ELSE 0

google_search(serp, scrape, num) ==
    IF google_search_serpapi(serp, num) > 0
    THEN google_search_serpapi(serp, num)
    ELSE google_search_scrape(scrape, num)

\* Variant of adjust_label with the comparison off by one
adjust_label_inclusive(label, n) ==
    IF n <= FewResults
    THEN IF label = "real" THEN "suspicious"
         ELSE IF label = "uncertain" THEN "fake"
         ELSE label
    ELSE label

\* The corroboration adjustment of verify()
adjust_label(label, n) ==
    IF n < FewResults
    THEN IF label = "real" THEN "suspicious"
         ELSE IF label = "uncertain" THEN "fake"
         ELSE label
    ELSE label

-----------------------------------------------------------------------------
(* What the environment can supply *)

\* results of the NLTK tokenisation: two words, one of which ("factory")
\* contains a sensational word ("act")
Vocabulary == {TokBank, TokFactory}
TokenLists == UNION {[1..n -> Vocabulary] : n \in 0..MaxTokens}
TokOutcomes == {[ok |-> FALSE]} \cup {[ok |-> TRUE, tokens |-> t] : t \in TokenLists}

\* polarity in [-1, 1]: the hundredths, and the neighbours of each threshold
PolarityGrid ==
    {k * 1000 : k \in -100..100}
      \cup {t + d : t \in {FakeNegPolarity, FakePosPolarity,
                           SuspiciousAbsPolarity, -SuspiciousAbsPolarity},
                    d \in {-5, -1, 1, 5}}
PolaritySamples == {-30000, 0, 20000}
PolOutcomes(values) ==
    {[ok |-> FALSE]} \cup {[ok |-> TRUE, value |-> v] : v \in values}

Titles == {Absent, [kind |-> "nostring"], Str(""), Str(TitleRaw)}
Metas(text) == {Absent, [kind |-> "nocontent"], Str(""), Str(text)}
ParagraphLists ==
    {<<>>, <<"">>, <<"", "">>, <<TextPlain>>, <<TextHi, TextTen>>,
     [i \in 1..(MaxParagraphs + 1) |-> "p"]}
Pages ==
    [title : Titles, paragraphs : ParagraphLists,
     meta_name : Metas(MetaText), meta_og : Metas(OgText)]
FetchOutcomes(pages) ==
    {[ok |-> FALSE]} \cup {[ok |-> TRUE, page |-> p] : p \in pages}

\* the page served to /verify: a title and a meta description, no paragraph
PageMeta == [title |-> Str(TitleRaw), paragraphs |-> <<>>,
             meta_name |-> Str(MetaText), meta_og |-> Absent]
VerifyPages == {PageMeta}

SerpOutcomes ==
    {[ok |-> FALSE]} \cup {[ok |-> TRUE, organic |-> k] : k \in 0..(SearchNum + 1)}
\* at most one of the scraped blocks lacks both a title and a link
ScrapeOutcomes ==
    {[ok |-> FALSE]}
      \cup UNION {{[ok |-> TRUE, containers |-> k, unusable |-> u] :
                      u \in 0..Min2(k, 1)} : k \in 0..(SearchNum + 1)}
\* "a or b": the scrape runs only when the API search returned nothing
ScrapeFor(serp) ==
    IF google_search_serpapi(serp, SearchNum) > 0
    THEN {[ok |-> FALSE]} ELSE ScrapeOutcomes
\* the fetch runs only for a URL, the NLP calls only past the length check
FetchFor(input) ==
    IF IsUrl(Strip(input)) THEN FetchOutcomes(VerifyPages) ELSE {[ok |-> FALSE]}
TokFor(text) ==
    IF Len(Strip(text)) < MinTextLen THEN {[ok |-> FALSE]} ELSE TokOutcomes
PolFor(text) ==
    IF Len(Strip(text)) < MinTextLen THEN {[ok |-> FALSE]}
    ELSE PolOutcomes(PolaritySamples)

\* the value of a JSON field: missing, a string, or a number
FieldValues ==
    {Absent, Str(""), Str(TextBlank), Str(TextHi), Str(TextLong),
     Str(UrlSample), [kind |-> "num", num |-> 7]}
Bodies ==
    {[kind |-> "invalid"]}
      \cup {[kind |-> "object", url |-> u, text |-> t] :
               u \in FieldValues, t \in FieldValues}

-----------------------------------------------------------------------------
(* Initial state *)

NoData     == [kind |-> "none"]
NoAnalysis == [label |-> "none"]
NoResp     == [status |-> 0]
NoCall     == [fn |-> "none"]
NoRet      == [kind |-> "none"]
StatsIdle  == [pc |-> "idle", total |-> 0, real_count |-> 0,
               suspicious_count |-> 0, fake_count |-> 0]

Init ==
    /\ reports = <<>>
    /\ pc = "idle"
    /\ data = NoData
    /\ raw = ""
    /\ search_query = ""
    /\ analysis_text = ""
    /\ analysis = NoAnalysis
    /\ search_results = 0
    /\ resp = NoResp
    /\ log = ""
    /\ st = StatsIdle
    /\ call = NoCall
    /\ ret = NoRet

fnVars == <<call, ret>>

-----------------------------------------------------------------------------
(* POST /verify.  The handler is one sequential run; it is cut at its      *)
(* external calls (fetch, NLP, search, commit).  A local is kept only      *)
(* while a later line still reads it.                                      *)

\* Python truthiness of a JSON field value
FieldTruthy(f) ==
    \/ f.kind = "str" /\ Truthy(f.value)
    \/ f.kind = "num" /\ f.num # 0

Error400 == [status |-> 400, error |-> "No input provided"]
Error500 == [status |-> 500, error |-> "Internal server error"]

Respond(r, msg) ==
    /\ resp' = r
    /\ log' = msg
    /\ pc' = "idle"
    /\ data' = NoData
    /\ raw' = ""
    /\ search_query' = ""
    /\ analysis_text' = ""
    /\ analysis' = NoAnalysis
    /\ search_results' = 0

\* a request arrives: data = request.get_json(force=True)
VerifyRequest(body) ==
    /\ pc = "idle"
    /\ Len(reports) < MaxReports
    /\ pc' = "validate"
    /\ data' = body
    /\ resp' = NoResp
    /\ log' = ""
    /\ UNCHANGED <<reports, raw, search_query, analysis_text, analysis,
                   search_results, st, fnVars>>

\* raw = (data.get("url") or data.get("text") or "").strip(); 400 when empty.
\* A body that is not a JSON object, or a truthy field that is not a string,
\* raises and is answered by the outer handler with 500.
VerifyValidate ==
    /\ pc = "validate"
    /\ IF data.kind = "invalid"
       THEN Respond(Error500, "verify failed")
       ELSE LET chosen == IF FieldTruthy(data.url) THEN data.url
                          ELSE IF FieldTruthy(data.text) THEN data.text
                          ELSE Str("")
            IN  IF chosen.kind # "str"
                THEN Respond(Error500, "verify failed")
                ELSE IF ~Truthy(Strip(chosen.value))
                THEN Respond(Error400, "")
                ELSE /\ raw' = Strip(chosen.value)
                     /\ pc' = "prepare"
                     /\ data' = NoData
                     /\ UNCHANGED <<search_query, analysis_text, analysis,
                                    search_results, resp, log>>
    /\ UNCHANGED <<reports, st, fnVars>>

\* search_query, analysis_text = prepare_query_from_input(raw)
VerifyPrepare(fetch) ==
    /\ pc = "prepare"
    /\ LET p == prepare_query_from_input(raw, fetch)
       IN  /\ search_query' = p.query
           /\ analysis_text' = p.text
    /\ raw' = ""
    /\ pc' = "analyze"
    /\ UNCHANGED <<reports, data, analysis, search_results, resp, log, st, fnVars>>

\* analysis = analyze_text(analysis_text)
VerifyAnalyze(tok, pol) ==
    /\ pc = "analyze"
    /\ analysis' = analyze_text(analysis_text, tok, pol)
    /\ pc' = "search"
    /\ UNCHANGED <<reports, data, raw, search_query, analysis_text,
                   search_results, resp, log, st, fnVars>>

\* search_results = google_search(search_query, num=6) if search_query else [],
\* then the corroboration adjustment of analysis["label"]
VerifySearch(serp, scrape) ==
    /\ pc = "search"
    /\ LET n == IF Truthy(search_query)
                THEN google_search(serp, scrape, SearchNum) ELSE 0
       IN  /\ search_results' = n
           /\ analysis' = [analysis EXCEPT !.label = adjust_label(@, n)]
    /\ search_query' = ""
    /\ pc' = "save"
    /\ UNCHANGED <<reports, data, raw, analysis_text, resp, log, st, fnVars>>

OkResponse == [status |-> 200, analysis |-> analysis,
               search_results |-> search_results]

\* Variant of NewReport that stores the text uncut
NewReport_uncut == [id    |-> Len(reports) + 1,
                    text  |-> analysis_text,
                    label |-> analysis["label"]]

NewReport == [id    |-> Len(reports) + 1,
              text  |-> Prefix(analysis_text, MaxStoredText),
              label |-> analysis["label"]]

\* Variant of VerifySave without the inner try/except: a failed commit
\* reaches the outer handler
VerifySave_uncaught(db_ok) ==
    /\ pc = "save"
    /\ IF db_ok
       THEN reports' = Append(reports, NewReport) /\ Respond(OkResponse, "")
       ELSE reports' = reports /\ Respond(Error500, "verify failed")
    /\ UNCHANGED <<st, fnVars>>

\* the try/except around the insert, then the response.  db_ok tells whether
\* add + commit went through.
VerifySave(db_ok) ==
    /\ pc = "save"
    /\ IF db_ok
       THEN reports' = Append(reports, NewReport) /\ Respond(OkResponse, "")
       ELSE reports' = reports /\ Respond(OkResponse, "DB save failed")
    /\ UNCHANGED <<st, fnVars>>

Verify ==
    \/ \E body \in Bodies : VerifyRequest(body)
    \/ VerifyValidate
    \/ pc = "prepare" /\ \E fetch \in FetchFor(raw) : VerifyPrepare(fetch)
    \/ pc = "analyze" /\ \E tok \in TokFor(analysis_text), pol \in PolFor(analysis_text) :
                            VerifyAnalyze(tok, pol)
    \/ pc = "search" /\ \E serp \in SerpOutcomes : \E scrape \in ScrapeFor(serp) :
                           VerifySearch(serp, scrape)
    \/ \E db_ok \in BOOLEAN : VerifySave(db_ok)

-----------------------------------------------------------------------------
(* GET /stats: four count queries, each a statement of its own; a commit   *)
(* of /verify can fall between two of them.                                *)

CountLabel(l) == Cardinality({i \in 1..Len(reports) : reports[i].label = l})

verifyVars == <<reports, pc, data, raw, search_query, analysis_text, analysis,
                search_results, resp, log>>

StatsTotal ==
    /\ st.pc \in {"idle", "done", "failed"}
    /\ st' = [StatsIdle EXCEPT !.pc = "real", !.total = Len(reports)]
    /\ UNCHANGED <<verifyVars, fnVars>>

StatsReal ==
    /\ st.pc = "real"
    /\ st' = [st EXCEPT !.pc = "suspicious", !.real_count = CountLabel("real")]
    /\ UNCHANGED <<verifyVars, fnVars>>

StatsSuspicious ==
    /\ st.pc = "suspicious"
    /\ st' = [st EXCEPT !.pc = "fake",
                        !.suspicious_count = CountLabel("suspicious")]
    /\ UNCHANGED <<verifyVars, fnVars>>

StatsFake ==
    /\ st.pc = "fake"
    /\ st' = [st EXCEPT !.pc = "done", !.fake_count = CountLabel("fake")]
    /\ UNCHANGED <<verifyVars, fnVars>>

\* a query raises: 500 {"error": "failed to fetch stats"}
StatsFail ==
    /\ st.pc # "failed"
    /\ st' = [StatsIdle EXCEPT !.pc = "failed"]
    /\ UNCHANGED <<verifyVars, fnVars>>

Stats == StatsTotal \/ StatsReal \/ StatsSuspicious \/ StatsFake \/ StatsFail

-----------------------------------------------------------------------------
(* Specifications *)

\* the /verify handler and the report table
Next == Verify
Spec == Init /\ [][Next]_vars

\* /verify requests and a concurrent /stats request
NextStats == Verify \/ Stats
SpecStats == Init /\ [][NextStats]_vars

\* direct calls of analyze_text and extract_text_from_url
FnTexts == {"", TextHi, TextNine, TextTen, TextPlain, TextLoud}
AnalyzeCalls ==
    {[fn |-> "analyze_text", text |-> t, tok |-> k, pol |-> p] :
        t \in FnTexts, k \in TokOutcomes, p \in PolOutcomes(PolarityGrid)}
ExtractCalls ==
    {[fn |-> "extract_text_from_url", url |-> UrlSample, fetch |-> f] :
        f \in FetchOutcomes(Pages)}

InitFn ==
    /\ reports = <<>>
    /\ pc = "idle"
    /\ data = NoData
    /\ raw = ""
    /\ search_query = ""
    /\ analysis_text = ""
    /\ analysis = NoAnalysis
    /\ search_results = 0
    /\ resp = NoResp
    /\ log = ""
    /\ st = StatsIdle
    /\ call \in AnalyzeCalls \cup ExtractCalls
    /\ ret = NoRet

CallAnalyze ==
    /\ call.fn = "analyze_text"
    /\ ret = NoRet
    /\ ret' = [kind |-> "analysis",
               value |-> analyze_text(call.text, call.tok, call.pol)]
    /\ UNCHANGED <<verifyVars, st, call>>

CallExtract ==
    /\ call.fn = "extract_text_from_url"
    /\ ret = NoRet
    /\ ret' = [kind |-> "extract",
               value |-> extract_text_from_url(call.url, call.fetch)]
    /\ UNCHANGED <<verifyVars, st, call>>

NextFn == CallAnalyze \/ CallExtract
SpecFn == InitFn /\ [][NextFn]_vars

-----------------------------------------------------------------------------
(* Properties of analyze_text (under SpecFn) *)

Analyzed ==
    /\ call.fn = "analyze_text"
    /\ ret.kind = "analysis"
    /\ Len(Strip(call.text)) >= 10

\* the polarity the classification read (0.0 when TextBlob raised)
CallPolarity == IF call.pol.ok THEN call.pol.value ELSE 0

\* C1: for a text of trimmed length >= 10 the label is decided in strict
\* order from (totalIndicators, sentiment) alone: fake if totalIndicators >= 3
\* or sentiment < -0.25 or sentiment > 0.5; else suspicious if
\* totalIndicators >= 1 or |sentiment| > 0.15; else real.
C1_StrictOrder ==
    Analyzed =>
        LET ti == ret.value.indicators
            s  == CallPolarity
        IN  ret.value.label =
                IF ti >= 3 \/ s < -25000 \/ s > 50000 THEN "fake"
                ELSE IF ti >= 1 \/ s > 15000 \/ s < -15000 THEN "suspicious"
                ELSE "real"

\* a call where the fake test fails on every clause at its boundary and the
\* suspicious test decides
C1_Witness ==
    /\ Analyzed
    /\ ret.value.indicators = 2
    /\ CallPolarity = 50000
    /\ ret.value.label = "suspicious"

\* C8 as stated: a polarity of exactly 0.5 gives 'fake' whatever the
\* indicator count.
C8_Original ==
    (Analyzed /\ CallPolarity = 50000) => ret.value.label = "fake"

\* C8 amended: a polarity of exactly 0.5 does not trigger the fake clause
\* (the comparison is strict); the label is 'fake' only when
\* totalIndicators >= 3 and 'suspicious' otherwise.
C8_Amended ==
    (Analyzed /\ CallPolarity = 50000) =>
        ret.value.label = IF ret.value.indicators >= 3 THEN "fake" ELSE "suspicious"

C8_Witness ==
    /\ Analyzed
    /\ CallPolarity = 50000
    /\ ret.value.indicators = 0
    /\ ret.value.label = "suspicious"

\* C9 as stated: totalIndicators exactly 2 and |sentiment| <= 0.15 give 'real'.
C9_Original ==
    (Analyzed /\ ret.value.indicators = 2 /\ Abs(CallPolarity) <= 15000) =>
        ret.value.label = "real"

\* C9 amended: totalIndicators exactly 2 and |sentiment| <= 0.15 give
\* 'suspicious' ('real' needs totalIndicators = 0).
C9_Amended ==
    (Analyzed /\ ret.value.indicators = 2 /\ Abs(CallPolarity) <= 15000) =>
        ret.value.label = "suspicious"

C9_Witness ==
    /\ Analyzed
    /\ ret.value.indicators = 2
    /\ CallPolarity = -15000
    /\ ret.value.label = "suspicious"

-----------------------------------------------------------------------------
(* Properties of extract_text_from_url (under SpecFn) *)

Extracted == call.fn = "extract_text_from_url" /\ ret.kind = "extract"

\* C10: when the fetch succeeds and no paragraph yields text, the body is the
\* meta description (name=description, else og:description) whenever one is
\* present, and the title only when there is none; when the fetch fails the
\* URL is returned as title and body.
C10_MetaBeforeTitle ==
    Extracted =>
        IF ~call.fetch.ok
        THEN ret.value = [title |-> call.url, content |-> call.url]
        ELSE LET page  == call.fetch.page
                 title == IF page.title.kind = "str"
                          THEN Strip(page.title.value) ELSE call.url
                 meta  == IF page.meta_name.kind # "absent"
                          THEN page.meta_name ELSE page.meta_og
             IN  (/\ page.title.kind # "nostring"
                  /\ \A i \in 1..Len(page.paragraphs) : page.paragraphs[i] = "")
                 => /\ (meta.kind = "str" /\ meta.value # "")
                          => ret.value.content = meta.value
                    /\ (page.meta_name.kind = "absent" /\ page.meta_og.kind = "absent")
                          => ret.value.content = title

-----------------------------------------------------------------------------
(* Properties of /verify (under Spec) *)

\* C2: the corroboration adjustment maps (label, n): with n < 3, real becomes
\* suspicious and uncertain becomes fake, suspicious and fake stay; with
\* n >= 3 every label stays; n ranges over 0..6.
C2_Adjustment ==
    [][(pc = "search" /\ pc' = "save") =>
          /\ search_results' \in 0..6
          /\ analysis'.label =
                IF search_results' < 3 /\ analysis.label = "real" THEN "suspicious"
                ELSE IF search_results' < 3 /\ analysis.label = "uncertain" THEN "fake"
                ELSE analysis.label]_vars

\* an analysis of a short text (no indicators entry, so it was 'uncertain')
\* that two search results turned into 'fake'
C2_Witness ==
    /\ pc = "save"
    /\ search_results = 2
    /\ DOMAIN analysis = {"sentiment", "label"}
    /\ analysis.label = "fake"

\* C3: no persisted report has the label 'uncertain'; every stored label is
\* one of real, suspicious, fake.
C3_NoUncertainRow ==
    \A i \in 1..Len(reports) : reports[i].label \in {"real", "suspicious", "fake"}

\* C4: a /verify request whose save succeeds adds exactly one row and leaves
\* the existing rows alone; the row holds the analysis text cut to 2000
\* characters and the (adjusted) label of the response; no other step of the
\* handler touches the table.
C4_OneRowPerSave ==
    [][IF pc = "save" /\ log' # "DB save failed"
       THEN /\ Len(reports') = Len(reports) + 1
            /\ SubSeq(reports', 1, Len(reports)) = reports
            /\ LET row == reports'[Len(reports')]
               IN  /\ row.text = SubSeq(analysis_text, 1,
                                        IF Len(analysis_text) < 2000
                                        THEN Len(analysis_text) ELSE 2000)
                   /\ row.label = analysis.label
                   /\ resp'.status = 200
                   /\ resp'.analysis.label = row.label
       ELSE reports' = reports]_vars

\* a second row whose text was cut, next to the first row
C4_Witness ==
    /\ pc = "idle"
    /\ Len(reports) = 2
    /\ Len(reports[2].text) = 2000
    /\ resp.status = 200
    /\ resp.analysis.label = reports[2].label

\* C5: a failed save is not propagated and not retried: the request ends with
\* the 200 response {analysis, search_results} it gives when the save
\* succeeds, and the table holds no row for it.
C5_SaveFailureSwallowed ==
    [][pc = "save" =>
          /\ pc' = "idle"
          /\ resp' = [status |-> 200, analysis |-> analysis,
                      search_results |-> search_results]
          /\ (Len(reports') = Len(reports)) = (log' = "DB save failed")
          /\ (log' = "DB save failed") => (reports' = reports)]_vars

C5_Witness ==
    /\ pc = "idle"
    /\ log = "DB save failed"
    /\ resp.status = 200
    /\ reports = <<>>

FieldBlank(f) == f.kind = "absent" \/ (f.kind = "str" /\ Strip(f.value) = "")
FieldGiven(f) == f.kind = "str" /\ Strip(f.value) # ""

\* C6: /verify answers 400 {"error": "No input provided"} when url and text
\* are both missing or empty after trimming, without touching the table or
\* going on to extraction and search; when one of the two fields is non-empty
\* after trimming the request is not answered 400.
C6_EmptyInput ==
    [][(pc = "validate" /\ data.kind = "object") =>
          /\ (FieldBlank(data.url) /\ FieldBlank(data.text)) =>
                (resp' = Error400 /\ pc' = "idle" /\ reports' = reports)
          /\ (FieldGiven(data.url) \/ FieldGiven(data.text)) =>
                resp'.status # 400]_vars

-----------------------------------------------------------------------------
(* Properties of /stats (under SpecStats) *)

\* C7: in every /stats response real_count + suspicious_count + fake_count
\* <= total_reports, with equality unless a row labelled 'uncertain' exists.
C7_StatsSum ==
    st.pc = "done" =>
        LET sum == st.real_count + st.suspicious_count + st.fake_count
        IN  /\ sum <= st.total
            /\ (\A i \in 1..Len(reports) : reports[i].label # "uncertain")
                  => sum = st.total

====
